---- MODULE Spec2Model ----
(***************************************************************************)
(* Model of zpcg-gtfs: the incremental fetch loop of update-feed.py (one   *)
(* session per configured station, a shared sqlite connection, a watermark *)
(* file per station), the stop resolver (search_station and its helpers),  *)
(* time_to_gtfs, the startup and per-trip upserts of update-feed.py over   *)
(* several runs on the same sqlite file (the tables as functions from      *)
(* primary key to row), the same loop against a backend that answers from  *)
(* a timetable, and the loop of the single-station variant fetch-hafas.py. *)
(*                                                                         *)
(* Instants are whole epoch seconds, abstracted to 0..MaxInstant.          *)
(* The relational store is abstracted to the set of upsert groups written: *)
(* <<station, iteration, k>> is the group of rows upserted for the k-th    *)
(* trip of the batch fetched by that iteration of that station's session   *)
(* (k = 0: the agencies row of the batch; iteration 0: the feed_info row). *)
(***************************************************************************)
EXTENDS Integers, Sequences, FiniteSets, TLC

\* ---------------------------------------------------------------- bounds
MaxInstant == 1     \* instants the backend may report: 0..MaxInstant
MaxList == 1        \* longest list one departures()/arrivals() call returns
MaxFetches == 2     \* iterations of the while-loop explored in one run, all sessions together
MaxStations == 2    \* features in stations.geojson
MaxHours == 25      \* hours after midnight of the reference date: 0..MaxHours
MaxTrips == 3       \* trips fetched in the runs explored, all runs together
MaxRuns == 2        \* runs of update-feed.py over the same store
MaxInterrupts == 1  \* KeyboardInterrupts arriving in the middle of a trip, in one run

NoFile == -1        \* the watermark file does not exist (FileNotFoundError)

Instants == 0..MaxInstant
Min(a, b) == IF a <= b THEN a ELSE b
Last(s) == s[Len(s)]

\* every list of length 0..n over S
RECURSIVE ListsUpTo(_, _)
ListsUpTo(S, n) ==
    IF n = 0 THEN {<<>>}
    ELSE LET shorter == ListsUpTo(S, n - 1)
         IN  shorter \cup {Append(l, x) : l \in {m \in shorter : Len(m) = n - 1}, x \in S}

VARIABLES
    \* ---- update-feed.py, module level / while-loop
    pc,               \* position of the process
    st,               \* index of search_name in config["data"]["stations"]
    iter,             \* iteration of the while-loop in this session (1-based)
    latest_time,      \* the in-memory watermark
    timestamp_file,   \* [station -> content of latest_timestamp_<name>.txt as this run
                      \*  has seen or written it; NoFile: absent or not opened yet]
    dep_result,       \* what client.departures returned in this iteration
    arr_result,       \* what client.arrivals returned in this iteration
    departures,       \* the concatenated list the loop walks
    idx,              \* position of the for-loop over departures
    latest_departure,
    latest_arrival,
    latest_time_end,
    pending,          \* upsert groups written on the connection, not committed
    committed,        \* upsert groups committed to the sqlite file
    \* ---- history (not program state)
    fetched,          \* every upsert group a fetched batch calls for
    aborted,          \* <<station, iteration>> of batches cut short by an exception
    startWm,          \* latest_time at the start of the session
    wmIter,           \* [station -> iteration that wrote the watermark file, 0: none]
    lastErr,          \* which call raised last in this session
    fetches,          \* iterations of the while-loop started so far in the run
    \* ---- update-feed.py, the resolver
    rpc,              \* "load": before get_stations; "running"; "crashed": an uncaught
                      \* exception ended the process
    stations,         \* the list get_stations returned
    cache,            \* the default argument cache={} of search_station:
                      \* a function from (latitude, longitude) to the Stop stored
    call,             \* the last call of search_station: its argument and outcome
    \* ---- history of the resolver (not program state)
    queried,          \* the coordinate pairs search_station was called with
    firstResult,      \* [coordinate pair -> what the first call for it returned]
    \* ---- update-feed.py, time_to_gtfs: the last call
    gtfs_start_date,  \* its start_date, a day number
    gtfs_time,        \* its time, whole seconds since day 0 (same timezone)
    gtfs_result,      \* the text it returned
    \* ---- update-feed.py, startup and the trips of a batch (lines 231-246, 305-404)
    fpc,              \* position of the process
    geojson,          \* content of stations.geojson as read: a feature list,
                      \* "missing", or "unread"
    db_opened,        \* prepare_database has run: the store file and its tables exist
    backend_called,   \* a call to the timetable backend was made in this run
    failure,          \* what ended the process: "none", "config", "geojson", "resolver"
    store,            \* the tables as the connection sees them: for each table a
                      \* function from primary key to row
    db_file,          \* the tables as committed to the sqlite file
    trip,             \* the global trip (line 306)
    start,            \* line 309
    dest,             \* line 310
    sequence,         \* line 354
    stopover_i,       \* position of the for-loop of line 355 in trip.stopovers
    ntrips,           \* trips fetched so far, all runs together
    runs,             \* runs started so far
    \* ---- history of the trips (not program state)
    written,          \* the upserts of the processing of the current trip, in order
    store_before,     \* the store when the processing of the current trip began
    done,             \* the last completed processing, if any: the trip, the store
                      \* after it and the run it was in
    interrupts,       \* KeyboardInterrupts that arrived in the middle of a trip
    \* ---- the timetable backend as the station queried sees it (not program state)
    timetable,        \* the departures and the arrivals of the station, each a list
                      \* of instants in ascending order
    seen              \* the departures and arrivals the session has fetched:
                      \* <<"departure" or "arrival", position in its list>>

loopVars == <<pc, st, iter, latest_time, timestamp_file, dep_result, arr_result,
              departures, idx, latest_departure, latest_arrival, latest_time_end,
              pending, committed, fetched, aborted, startWm, wmIter, lastErr, fetches>>

resolverVars == <<rpc, stations, cache, call, queried, firstResult>>

timeVars == <<gtfs_start_date, gtfs_time, gtfs_result>>

feedVars == <<fpc, geojson, db_opened, backend_called, failure, store, db_file, trip,
              start, dest, sequence, stopover_i, ntrips, runs, written,
              store_before, done, interrupts>>

worldVars == <<timetable, seen>>

vars == <<loopVars, resolverVars, timeVars, feedVars, worldVars>>

\* config["data"]["stations"]: the named station queries of the run, in order
config_stations == <<"Bar", "Podgorica">>
NStations == Len(config_stations)
StationIds == 1..NStations
BackendCalls == {"locations", "departures", "arrivals", "trip"}

LoopInit ==
    /\ pc = "locate"
    /\ st = 1
    /\ iter = 0
    /\ latest_time = 0
    /\ timestamp_file = [s \in StationIds |-> NoFile]
    /\ dep_result = <<>>
    /\ arr_result = <<>>
    /\ departures = <<>>
    /\ idx = 0
    /\ latest_departure = 0
    /\ latest_arrival = 0
    /\ latest_time_end = 0
    /\ pending = {}
    /\ committed = {}
    /\ fetched = {}
    /\ aborted = {}
    /\ startWm = 0
    /\ wmIter = [s \in StationIds |-> 0]
    /\ lastErr = "none"
    /\ fetches = 0

\* ------------------------------------------------- update-feed.py: the loop

\* the per-iteration variables, as they are before the first fetch
ClearBatch ==
    /\ dep_result' = <<>>
    /\ arr_result' = <<>>
    /\ departures' = <<>>
    /\ idx' = 0
    /\ latest_departure' = 0
    /\ latest_arrival' = 0
    /\ latest_time_end' = 0

\* lines 239-263: get_stations(), client.locations(search_name) returns, the
\* watermark file is read (found: what an earlier run left there; absent:
\* datetime.now()), feed_info is upserted.
Locate ==
    /\ pc = "locate"
    /\ \E found \in {NoFile} \cup Instants, now \in Instants :
          /\ timestamp_file' = [timestamp_file EXCEPT ![st] = found]
          /\ latest_time' = IF found = NoFile THEN now ELSE found
    /\ startWm' = latest_time'
    /\ pending' = pending \cup {<<st, 0, 0>>}
    /\ fetched' = fetched \cup {<<st, 0, 0>>}
    /\ lastErr' = "none"
    /\ pc' = "fetch"
    /\ UNCHANGED <<fetches, st, iter, dep_result, arr_result, departures, idx,
                   latest_departure, latest_arrival, latest_time_end, committed,
                   aborted, wmIter>>

\* line 245: client.locations raises GeneralHafasError outside any try: the
\* exception is not caught and the interpreter exits; the open transaction of
\* the connection is rolled back.
LocateFail ==
    /\ pc = "locate"
    /\ lastErr' = "locations"
    /\ pc' = "crashed"
    /\ pending' = {}
    /\ UNCHANGED <<fetches, st, iter, latest_time, timestamp_file, dep_result, arr_result,
                   departures, idx, latest_departure, latest_arrival, latest_time_end,
                   committed, fetched, aborted, startWm, wmIter>>

\* lines 288, 424, 430 and 238: break leaves the while-loop, and the for-loop
\* over config["data"]["stations"] takes the next search_name or falls through
\* to the export (line 433). err: what the except clause caught ("none": a
\* break without an exception).
Break(err) ==
    /\ lastErr' = err
    /\ IF st < NStations
       THEN /\ st' = st + 1
            /\ pc' = "locate"
       ELSE /\ st' = st
            /\ pc' = "export"
    /\ iter' = 0
    /\ ClearBatch

\* lines 284-303: both lists are fetched and concatenated; an empty batch breaks;
\* otherwise latest_departure and latest_arrival are read off the concatenated
\* list and the agencies row is upserted.
Fetch ==
    /\ pc = "fetch"
    /\ fetches < MaxFetches
    /\ fetches' = fetches + 1
    /\ \E d \in ListsUpTo(Instants, MaxList), a \in ListsUpTo(Instants, MaxList) :
          IF d \o a = <<>>
          THEN /\ Break("none")
               /\ UNCHANGED <<pending, fetched>>
          ELSE /\ dep_result' = d
               /\ arr_result' = a
               /\ departures' = d \o a
               /\ latest_departure' = Last(departures')
               /\ latest_arrival' = Last(departures')
               /\ pending' = pending \cup {<<st, iter + 1, 0>>}
               /\ fetched' = fetched \cup {<<st, iter + 1, k>> : k \in 0..Len(departures')}
               /\ idx' = 1
               /\ iter' = iter + 1
               /\ pc' = "trips"
               /\ UNCHANGED <<st, latest_time_end, lastErr>>
    /\ UNCHANGED <<latest_time, timestamp_file, committed, aborted, startWm, wmIter>>

\* lines 284-285, 428-430: client.departures or client.arrivals raises
\* GeneralHafasError; the except clause breaks out of the while-loop.
FetchFail ==
    /\ pc = "fetch"
    /\ \E failing \in {"departures", "arrivals"} : Break(failing)
    /\ UNCHANGED <<fetches, latest_time, timestamp_file, pending, committed, fetched,
                   aborted, startWm, wmIter>>

\* lines 305-404: one pass of the for-loop: client.trip returns and the rows
\* of the trip (routes, trips, calendar_dates, stops, stop_times) are upserted.
ProcessTrip ==
    /\ pc = "trips"
    /\ idx <= Len(departures)
    /\ pending' = pending \cup {<<st, iter, idx>>}
    /\ idx' = idx + 1
    /\ pc' = IF idx' > Len(departures) THEN "commit" ELSE "trips"
    /\ UNCHANGED <<fetches, st, iter, latest_time, timestamp_file, dep_result, arr_result,
                   departures, latest_departure, latest_arrival, latest_time_end,
                   committed, fetched, aborted, startWm, wmIter, lastErr>>

\* lines 306, 428-430: client.trip raises GeneralHafasError in the middle of the
\* batch; the except clause breaks. Nothing is rolled back.
TripFail ==
    /\ pc = "trips"
    /\ idx <= Len(departures)
    /\ aborted' = aborted \cup {<<st, iter>>}
    /\ Break("trip")
    /\ UNCHANGED <<fetches, latest_time, timestamp_file, pending, committed, fetched,
                   startWm, wmIter>>

\* lines 307-404: a statement of the for-loop body raises an exception that the
\* except clause of line 428 does not name (station_name_fallback's Exception
\* out of search_station, mode_to_route_type's "Unknown mode"): the interpreter
\* exits and the open transaction of the connection is rolled back.
TripCrash ==
    /\ pc = "trips"
    /\ idx <= Len(departures)
    /\ aborted' = aborted \cup {<<st, iter>>}
    /\ lastErr' = "uncaught"
    /\ pc' = "crashed"
    /\ pending' = {}
    /\ UNCHANGED <<fetches, st, iter, latest_time, timestamp_file, dep_result, arr_result,
                   departures, idx, latest_departure, latest_arrival, latest_time_end,
                   committed, fetched, startWm, wmIter>>

\* lines 286-303 for the lists d and a that client.departures and
\* client.arrivals returned: an empty batch breaks; otherwise latest_departure
\* and latest_arrival are read off the concatenated list and the agencies row
\* is upserted.
TakeBatch(d, a) ==
    IF d \o a = <<>>
    THEN /\ Break("none")
         /\ UNCHANGED <<pending, fetched>>
    ELSE /\ dep_result' = d
         /\ arr_result' = a
         /\ departures' = d \o a
         /\ latest_departure' = Last(departures')
         /\ latest_arrival' = Last(departures')
         /\ pending' = pending \cup {<<st, iter + 1, 0>>}
         /\ fetched' = fetched \cup {<<st, iter + 1, k>> : k \in 0..Len(departures')}
         /\ idx' = 1
         /\ iter' = iter + 1
         /\ pc' = "trips"
         /\ UNCHANGED <<st, latest_time_end, lastErr>>

\* lines 284-303 with a backend whose instants are bounded above (Instants) and
\* whose batch never ends before the anchor it was fetched with (date =
\* latest_time): as Fetch, without the bound on the iterations explored.
FetchAnchored ==
    /\ pc = "fetch"
    /\ fetches' = fetches + 1
    /\ \E d \in ListsUpTo(Instants, MaxList), a \in ListsUpTo(Instants, MaxList) :
          /\ d \o a # <<>> => Last(d \o a) >= latest_time
          /\ TakeBatch(d, a)
    /\ UNCHANGED <<latest_time, timestamp_file, committed, aborted, startWm, wmIter>>

\* ---- the backend answering from a timetable
\* a list of instants in ascending order
Ascending(l) == \A i \in 1..Len(l) - 1 : l[i] <= l[i + 1]

\* the timetables of a station: up to MaxList + 1 departures and as many
\* arrivals, so that a list can be longer than one answer
Timetables ==
    [dep : {l \in ListsUpTo(Instants, MaxList + 1) : Ascending(l)},
     arr : {l \in ListsUpTo(Instants, MaxList + 1) : Ascending(l)}]

NoTimetable == [dep |-> <<>>, arr |-> <<>>]

WorldInit ==
    /\ timetable = NoTimetable
    /\ seen = {}

\* client.departures / client.arrivals(date=anchor, max_trips=MaxList): the
\* positions in the list of the first MaxList entries not earlier than the
\* anchor (the list is ascending: a run of consecutive positions)
Answer(list, anchor) ==
    LET from == {i \in 1..Len(list) : list[i] >= anchor}
    IN  {i \in from : Cardinality({j \in from : j < i}) < MaxList}

\* the entries at the consecutive positions P of the list, in order
Entries(list, P) ==
    IF P = {} THEN <<>>
    ELSE LET lo == CHOOSE i \in P : \A j \in P : i <= j
         IN  SubSeq(list, lo, lo + Cardinality(P) - 1)

\* lines 239-263 for a station with some timetable
LocateTimetable ==
    /\ Locate
    /\ timetable' \in Timetables
    /\ seen' = {}

\* lines 284-303 with the backend answering from the timetable of the station:
\* both lists in ascending order from the anchor, cut at the bounded count
FetchTimetable ==
    /\ pc = "fetch"
    /\ fetches' = fetches + 1
    /\ LET D == Answer(timetable.dep, latest_time)
           A == Answer(timetable.arr, latest_time)
           d == Entries(timetable.dep, D)
           a == Entries(timetable.arr, A)
       IN  /\ TakeBatch(d, a)
           /\ seen' = seen \cup {<<"departure", i>> : i \in D}
                            \cup {<<"arrival", i>> : i \in A}
    /\ UNCHANGED <<latest_time, timestamp_file, committed, aborted, startWm, wmIter,
                   timetable>>

\* db.commit() left out of the loop body (as fetch-hafas.py has it, committing
\* only after the loop)
Commit_Skipped ==
    /\ pc = "commit"
    /\ latest_time_end' = Min(latest_departure, latest_arrival)
    /\ pc' = "write"
    /\ UNCHANGED <<fetches, st, iter, latest_time, timestamp_file, dep_result, arr_result,
                   departures, idx, latest_departure, latest_arrival, pending, committed,
                   fetched, aborted, startWm, wmIter, lastErr>>

\* lines 406-413: latest_time_end is computed and the transaction is committed:
\* everything written on the shared connection so far becomes durable.
Commit ==
    /\ pc = "commit"
    /\ latest_time_end' = Min(latest_departure, latest_arrival)
    /\ committed' = committed \cup pending
    /\ pending' = {}
    /\ pc' = "write"
    /\ UNCHANGED <<fetches, st, iter, latest_time, timestamp_file, dep_result, arr_result,
                   departures, idx, latest_departure, latest_arrival, fetched, aborted,
                   startWm, wmIter, lastErr>>

\* lines 415-420: the watermark file is overwritten with latest_time_end.
WriteWatermark ==
    /\ pc = "write"
    /\ IF departures # <<>>
       THEN /\ timestamp_file' = [timestamp_file EXCEPT ![st] = latest_time_end]
            /\ wmIter' = [wmIter EXCEPT ![st] = iter]
       ELSE UNCHANGED <<timestamp_file, wmIter>>
    /\ pc' = "check"
    /\ UNCHANGED <<fetches, st, iter, latest_time, dep_result, arr_result, departures, idx,
                   latest_departure, latest_arrival, latest_time_end, pending, committed,
                   fetched, aborted, startWm, lastErr>>

\* lines 422-426: break when the two watermarks are equal, else advance the
\* in-memory watermark and go round the while-loop again.
Check ==
    /\ pc = "check"
    /\ IF latest_time = latest_time_end
       THEN /\ Break("none")
            /\ UNCHANGED latest_time
       ELSE /\ latest_time' = latest_time_end
            /\ pc' = "fetch"
            /\ UNCHANGED <<st, iter, dep_result, arr_result, departures, idx,
                           latest_departure, latest_arrival, latest_time_end, lastErr>>
    /\ UNCHANGED <<fetches, timestamp_file, pending, committed, fetched, aborted,
                   startWm, wmIter>>

\* lines 428-430: KeyboardInterrupt arrives somewhere inside the try block; the
\* except clause breaks. A batch interrupted before its db.commit() is cut short.
Interrupt ==
    /\ pc \in {"fetch", "trips", "commit", "write", "check"}
    /\ aborted' = IF pc \in {"trips", "commit"} THEN aborted \cup {<<st, iter>>} ELSE aborted
    /\ Break("interrupt")
    /\ UNCHANGED <<fetches, latest_time, timestamp_file, pending, committed, fetched,
                   startWm, wmIter>>

\* lines 433-494: the sqlite3 command-line tool dumps the committed tables,
\* the feed is zipped and post-processed; the process exits without another
\* commit, so whatever is still pending on the connection is rolled back.
Export ==
    /\ pc = "export"
    /\ pc' = "done"
    /\ pending' = {}
    /\ UNCHANGED <<fetches, st, iter, latest_time, timestamp_file, dep_result, arr_result,
                   departures, idx, latest_departure, latest_arrival, latest_time_end,
                   committed, fetched, aborted, startWm, wmIter, lastErr>>

\* --------------------------------------------------- fetch-hafas.py: the loop
\* The single-station variant: search_name is sys.argv[1] (st stays 1), the
\* loop has no test for an empty batch and none for a watermark that stands
\* still, and db.commit() is called once, after the loop.

\* lines 106-131: prepare_database, get_stations, client.locations returns,
\* the watermark file is read (absent: datetime.now()), feed_info is upserted.
HafasStart ==
    /\ pc = "locate"
    /\ \E found \in {NoFile} \cup Instants, now \in Instants :
          /\ timestamp_file' = [timestamp_file EXCEPT ![st] = found]
          /\ latest_time' = IF found = NoFile THEN now ELSE found
    /\ startWm' = latest_time'
    /\ pending' = pending \cup {<<st, 0, 0>>}
    /\ fetched' = fetched \cup {<<st, 0, 0>>}
    /\ lastErr' = "none"
    /\ pc' = "fetch"
    /\ UNCHANGED <<fetches, st, iter, dep_result, arr_result, departures, idx,
                   latest_departure, latest_arrival, latest_time_end, committed,
                   aborted, wmIter>>

\* line 114: client.locations raises outside the try: the process ends without
\* reaching db.commit().
HafasLocateFail ==
    /\ pc = "locate"
    /\ lastErr' = "locations"
    /\ pc' = "crashed"
    /\ pending' = {}
    /\ UNCHANGED <<fetches, st, iter, latest_time, timestamp_file, dep_result, arr_result,
                   departures, idx, latest_departure, latest_arrival, latest_time_end,
                   committed, fetched, aborted, startWm, wmIter>>

\* lines 251-254: the except clause caught GeneralHafasError or
\* KeyboardInterrupt and breaks; line 258 is next.
HafasBreak(err) ==
    /\ lastErr' = err
    /\ pc' = "commit"

\* lines 153-158: departures are fetched and latest_departure is read off their
\* last element: on an empty list departures[-1] raises IndexError, which the
\* except clause does not name, and the process ends with its transaction
\* rolled back. Otherwise the arrivals are appended, latest_arrival is read off
\* the concatenated list and the agencies row is upserted.
HafasFetch ==
    /\ pc = "fetch"
    /\ fetches < MaxFetches
    /\ fetches' = fetches + 1
    /\ \E d \in ListsUpTo(Instants, MaxList), a \in ListsUpTo(Instants, MaxList) :
          IF d = <<>>
          THEN /\ lastErr' = "IndexError"
               /\ pc' = "crashed"
               /\ pending' = {}
               /\ UNCHANGED <<dep_result, arr_result, departures, latest_departure,
                              latest_arrival, fetched, idx, iter>>
          ELSE /\ dep_result' = d
               /\ arr_result' = a
               /\ departures' = d \o a
               /\ latest_departure' = Last(d)
               /\ latest_arrival' = Last(departures')
               /\ pending' = pending \cup {<<st, iter + 1, 0>>}
               /\ fetched' = fetched \cup {<<st, iter + 1, k>> : k \in 0..Len(departures')}
               /\ idx' = 1
               /\ iter' = iter + 1
               /\ pc' = "trips"
               /\ UNCHANGED lastErr
    /\ UNCHANGED <<st, latest_time, latest_time_end, timestamp_file, committed, aborted,
                   startWm, wmIter>>

\* lines 153, 155, 251-254: client.departures or client.arrivals raises
\* GeneralHafasError; the except clause breaks.
HafasFetchFail ==
    /\ pc = "fetch"
    /\ \E failing \in {"departures", "arrivals"} : HafasBreak(failing)
    /\ UNCHANGED <<fetches, st, iter, latest_time, timestamp_file, dep_result, arr_result,
                   departures, idx, latest_departure, latest_arrival, latest_time_end,
                   pending, committed, fetched, aborted, startWm, wmIter>>

\* lines 162-241: one pass of the for-loop: client.trip returns and the rows of
\* the trip are upserted.
HafasProcessTrip ==
    /\ pc = "trips"
    /\ idx <= Len(departures)
    /\ pending' = pending \cup {<<st, iter, idx>>}
    /\ idx' = idx + 1
    /\ pc' = IF idx' > Len(departures) THEN "write" ELSE "trips"
    /\ UNCHANGED <<fetches, st, iter, latest_time, timestamp_file, dep_result, arr_result,
                   departures, latest_departure, latest_arrival, latest_time_end,
                   committed, fetched, aborted, startWm, wmIter, lastErr>>

\* lines 163, 251-254: client.trip raises GeneralHafasError in the middle of
\* the batch; the except clause breaks.
HafasTripFail ==
    /\ pc = "trips"
    /\ idx <= Len(departures)
    /\ aborted' = aborted \cup {<<st, iter>>}
    /\ HafasBreak("trip")
    /\ UNCHANGED <<fetches, st, iter, latest_time, timestamp_file, dep_result, arr_result,
                   departures, idx, latest_departure, latest_arrival, latest_time_end,
                   pending, committed, fetched, startWm, wmIter>>

\* lines 164-241: a statement of the for-loop body raises an exception the
\* except clause does not name (mode_to_route_type line 73,
\* station_name_fallback line 103, time_to_gtfs on a stopover without times):
\* the process ends with its transaction rolled back.
HafasTripCrash ==
    /\ pc = "trips"
    /\ idx <= Len(departures)
    /\ aborted' = aborted \cup {<<st, iter>>}
    /\ lastErr' = "uncaught"
    /\ pc' = "crashed"
    /\ pending' = {}
    /\ UNCHANGED <<fetches, st, iter, latest_time, timestamp_file, dep_result, arr_result,
                   departures, idx, latest_departure, latest_arrival, latest_time_end,
                   committed, fetched, startWm, wmIter>>

\* lines 243-248: latest_time becomes the minimum of the two latest instants
\* and is written to the watermark file; the while-loop goes round again.
\* Nothing is committed.
HafasWriteWatermark ==
    /\ pc = "write"
    /\ latest_time' = Min(latest_departure, latest_arrival)
    /\ IF departures # <<>>
       THEN /\ timestamp_file' = [timestamp_file EXCEPT ![st] = latest_time']
            /\ wmIter' = [wmIter EXCEPT ![st] = iter]
       ELSE UNCHANGED <<timestamp_file, wmIter>>
    /\ pc' = "fetch"
    /\ UNCHANGED <<fetches, st, iter, dep_result, arr_result, departures, idx,
                   latest_departure, latest_arrival, latest_time_end, pending, committed,
                   fetched, aborted, startWm, lastErr>>

\* lines 251-254: KeyboardInterrupt arrives somewhere inside the try block.
HafasInterrupt ==
    /\ pc \in {"fetch", "trips", "write"}
    /\ aborted' = IF pc = "trips" THEN aborted \cup {<<st, iter>>} ELSE aborted
    /\ HafasBreak("interrupt")
    /\ UNCHANGED <<fetches, st, iter, latest_time, timestamp_file, dep_result, arr_result,
                   departures, idx, latest_departure, latest_arrival, latest_time_end,
                   pending, committed, fetched, startWm, wmIter>>

\* lines 257-258: db.commit() after the loop; the process ends.
HafasCommit ==
    /\ pc = "commit"
    /\ committed' = committed \cup pending
    /\ pending' = {}
    /\ pc' = "done"
    /\ UNCHANGED <<fetches, st, iter, latest_time, timestamp_file, dep_result, arr_result,
                   departures, idx, latest_departure, latest_arrival, latest_time_end,
                   fetched, aborted, startWm, wmIter, lastErr>>

\* ------------------------------------------- update-feed.py: text helpers
\* A str is a sequence of characters; a character is a one-letter string. The
\* precomposed letters s-caron and c-acute are written "s^", "S^" and "c'":
\* NFD splits them into the base letter and the combining mark "^" or "'".

\* unicodedata.normalize("NFD", c) for one character
NFD(c) ==
    CASE c = "s^" -> <<"s", "^">>
      [] c = "S^" -> <<"S", "^">>
      [] c = "c'" -> <<"c", "'">>
      [] c = "C'" -> <<"C", "'">>
      [] OTHER -> <<c>>

\* unicodedata.category(c) == "Mn": the combining marks
IsMn(c) == c \in {"^", "'"}

\* str.lower() for one character
Lower(c) ==
    CASE c = "B" -> "b"
      [] c = "C" -> "c"
      [] c = "N" -> "n"
      [] c = "S" -> "s"
      [] c = "T" -> "t"
      [] c = "U" -> "u"
      [] c = "X" -> "x"
      [] OTHER -> c

\* unicodedata.normalize("NFD", s) of a string: character by character
RECURSIVE NormalizeNFD(_)
NormalizeNFD(str) ==
    IF str = <<>> THEN <<>> ELSE NFD(Head(str)) \o NormalizeNFD(Tail(str))

NotMn(c) == ~IsMn(c)

\* str.lower()
LowerStr(str) == [i \in 1..Len(str) |-> Lower(str[i])]

\* lines 91-92
strip_accents(str) == SelectSeq(NormalizeNFD(str), NotMn)

\* str.replace(old, ""): every non-overlapping occurrence, left to right
RECURSIVE Remove(_, _)
Remove(str, old) ==
    IF Len(str) < Len(old) THEN str
    ELSE IF SubSeq(str, 1, Len(old)) = old
         THEN Remove(SubSeq(str, Len(old) + 1, Len(str)), old)
         ELSE <<Head(str)>> \o Remove(Tail(str), old)

\* re.sub(r"\(.*\)", "", str): the greedy match runs from the first "(" to the
\* last ")" after it; after it nothing is left to match
StripParens(str) ==
    LET opens == {i \in 1..Len(str) : str[i] = "("}
        closes == {i \in 1..Len(str) : str[i] = ")"}
    IN  IF opens = {} \/ closes = {} THEN str
        ELSE LET i == CHOOSE x \in opens : \A y \in opens : x <= y
                 j == CHOOSE x \in closes : \A y \in closes : x >= y
             IN  IF i < j THEN SubSeq(str, 1, i - 1) \o SubSeq(str, j + 1, Len(str))
                 ELSE str

Stajaliste == <<"S", "t", "a", "j", "a", "l", "i", "s", "t", "e">>

\* lines 95-101
normalize_name(name) ==
    LowerStr(Remove(Remove(StripParens(strip_accents(name)), Stajaliste \o <<" ">>),
                    <<" ">> \o Stajaliste))

\* x in y, for str
IsSubstring(x, y) ==
    \E i \in 0..(Len(y) - Len(x)) : SubSeq(y, i + 1, i + Len(x)) = x

\* difflib.SequenceMatcher.find_longest_match over the whole of a and b (no
\* junk: autojunk needs 200 elements): the longest common block, of those the
\* one starting earliest in a, of those the one starting earliest in b.
\* <<i, j, k>>: a[i..i+k-1] = b[j..j+k-1]; k = 0 when there is none.
find_longest_match(a, b) ==
    LET blocks == {t \in (1..Len(a)) \X (1..Len(b)) \X (1..Min(Len(a), Len(b))) :
                      /\ t[1] + t[3] - 1 <= Len(a)
                      /\ t[2] + t[3] - 1 <= Len(b)
                      /\ SubSeq(a, t[1], t[1] + t[3] - 1) = SubSeq(b, t[2], t[2] + t[3] - 1)}
    IN  IF blocks = {} THEN <<1, 1, 0>>
        ELSE CHOOSE t \in blocks :
                \A u \in blocks :
                    \/ t[3] > u[3]
                    \/ (t[3] = u[3] /\ t[1] < u[1])
                    \/ (t[3] = u[3] /\ t[1] = u[1] /\ t[2] <= u[2])

\* the sum of the sizes of SequenceMatcher.get_matching_blocks(): the longest
\* block, then the same to its left and to its right
RECURSIVE Matches(_, _)
Matches(a, b) ==
    LET m == find_longest_match(a, b)
    IN  IF m[3] = 0 THEN 0
        ELSE m[3] + Matches(SubSeq(a, 1, m[1] - 1), SubSeq(b, 1, m[2] - 1))
                  + Matches(SubSeq(a, m[1] + m[3], Len(a)), SubSeq(b, m[2] + m[3], Len(b)))

\* lines 116: SequenceMatcher.ratio() > 0.75, ratio = 2.0 * matches / (len(a) +
\* len(b)), and 1.0 for two empty sequences
RatioAbove075(a, b) ==
    IF Len(a) + Len(b) = 0 THEN TRUE
    ELSE 8 * Matches(a, b) > 3 * (Len(a) + Len(b))

\* lines 116-120, for one name-like tag value already normalized
NamesPlausible(match_name, osm_name) ==
    \/ RatioAbove075(match_name, osm_name)
    \/ /\ osm_name # <<>>
       /\ match_name # <<>>
       /\ (IsSubstring(osm_name, match_name) \/ IsSubstring(match_name, osm_name))

\* ------------------------------------------------ update-feed.py: resolver
\* Coordinates are whole multiples of 0.0001 degree from a local origin, so the
\* squared-distance limit 0.00002 of line 142 is 2000 of these units squared.
DistLimit == 2000

\* names
nBar == <<"B", "a", "r">>
nBarBracketed == <<"[", "B", "a", "r", "]">>
nBarStajaliste == <<"B", "a", "r", " ">> \o Stajaliste
nNiksic == <<"N", "i", "k", "s", "i", "c">>
nNiksicLatn == <<"N", "i", "k", "s^", "i", "c'">>
nTuzi == <<"T", "u", "z", "i">>
nUlcinj == <<"U", "l", "c", "i", "n", "j">>

\* A feature of stations.geojson: geometry.coordinates = <<lon, lat>> and the
\* properties, a function from the tag keys the feature carries to their values.
Feature(lon, lat, props) == [coordinates |-> <<lon, lat>>, properties |-> props]

\* features a stations.geojson is drawn from: near the first stop position
\* <<10, 10>> (a station, a halt known by an alternate name only, an abandoned
\* station, a station just beyond the distance limit), far from every stop (two
\* carrying a reference code, one of them without any name), near the second
\* stop position <<300, 300>> (one with localized names only, one tagged
\* public_transport=station)
FeaturePool ==
    { Feature(11, 11, ("name" :> nBar) @@ ("railway" :> "station")),
      Feature(20, 5, ("alt_name" :> nBarStajaliste) @@ ("railway" :> "halt")),
      Feature(9, 9, ("name" :> nBarBracketed) @@ ("railway" :> "station")
                    @@ ("abandoned:railway" :> "station")),
      Feature(50, 31, ("name" :> nBar) @@ ("public_transport" :> "station")),
      Feature(900, 900, ("name" :> nTuzi) @@ ("ref:ibnr" :> "8100001")),
      Feature(800, 950, ("ref:ibnr" :> "8100001") @@ ("railway" :> "station")),
      Feature(301, 299, ("name:sr-Latn" :> nNiksicLatn) @@ ("name:en" :> nNiksic)),
      Feature(302, 300, ("name:en" :> nNiksic) @@ ("public_transport" :> "station")) }

\* the timetable stops (pyhafas Station: name, latitude, longitude, id) the
\* backend may report
StopPool ==
    { [name |-> n, latitude |-> p[1], longitude |-> p[2], id |-> i] :
          n \in {nBar, nNiksic, nUlcinj},
          p \in {<<10, 10>>, <<300, 300>>},
          i \in {"8100001", "8100002"} }

\* prop.startswith("name") or prop.startswith("alt_name") or
\* prop.startswith("int_name"), over the tag keys that occur (line 113)
IsNameLike(prop) ==
    prop \in {"name", "name:sr-Latn", "name:en", "alt_name", "int_name"}

\* the Stop object search_station builds
StopResult(name, lat, lon) == [name |-> name, lat |-> lat, lon |-> lon]
NoResult == StopResult(<<>>, 0, 0)

\* list.sort(key=lambda s: s["geometry"]["coordinates"][k]): a stable sort of
\* the features by their k-th coordinate (k = 1 longitude, k = 2 latitude)
RECURSIVE SortBy(_, _)
SortBy(k, list) ==
    IF list = <<>> THEN <<>>
    ELSE LET rest == SortBy(k, SubSeq(list, 1, Len(list) - 1))
             x == list[Len(list)]
             before == {i \in 1..Len(rest) : rest[i].coordinates[k] <= x.coordinates[k]}
             n == Cardinality(before)
         IN  \* rest is sorted, so the elements not after x are a prefix of it
             SubSeq(rest, 1, n) \o <<x>> \o SubSeq(rest, n + 1, Len(rest))

LonOf(f) == f.coordinates[1]
LatOf(f) == f.coordinates[2]

\* lines 43-49: sorted by coordinates[0], then (stably) by coordinates[1]
get_stations(features) == SortBy(2, SortBy(1, features))

\* lines 52-53
distance(a, b) == (a[1] - b[1]) * (a[1] - b[1]) + (a[2] - b[2]) * (a[2] - b[2])

\* lines 109-120 for every stop name and every name-like tag value that occur:
\* both names normalized and compared, worked out once
StopNames == {stop.name : stop \in StopPool}
OsmNames ==
    UNION {{f.properties[prop] : prop \in {k \in DOMAIN f.properties : IsNameLike(k)}} :
              f \in FeaturePool}
PlausiblePairs ==
    UNION { IF NamesPlausible(normalize_name(pair[1]), normalize_name(pair[2]))
            THEN {pair} ELSE {} : pair \in StopNames \X OsmNames }

\* lines 104-122
station_name_matches(osm_station, name) ==
    \E prop \in DOMAIN osm_station.properties :
        /\ IsNameLike(prop)
        /\ <<name, osm_station.properties[prop]>> \in PlausiblePairs

\* line 65 and line 144: the feature carries the stop's id as its ref:ibnr
RefMatches(station, stop) ==
    /\ "ref:ibnr" \in DOMAIN station.properties
    /\ station.properties["ref:ibnr"] = stop.id

\* lines 70-84: a station or halt that is neither abandoned nor disused. Line 79
\* reads `"public_transport" in properties == "station"`, a chained comparison
\* that also compares the properties dict with the string and is never true.
IsActiveStation(candidate) ==
    /\ \/ /\ "railway" \in DOMAIN candidate.properties
          /\ candidate.properties["railway"] \in {"station", "halt"}
       \/ /\ "public_transport" \in DOMAIN candidate.properties
          /\ FALSE
    /\ "abandoned:railway" \notin DOMAIN candidate.properties
    /\ "disused:railway" \notin DOMAIN candidate.properties

First(S) == CHOOSE i \in S : \A j \in S : i <= j

\* lines 62-88, for a non-empty list
choose_best_osm_node(candidates, stop) ==
    LET byRef == {i \in 1..Len(candidates) : RefMatches(candidates[i], stop)}
        active == {i \in 1..Len(candidates) : IsActiveStation(candidates[i])}
    IN  IF byRef # {} THEN candidates[First(byRef)]
        ELSE IF active # {} THEN candidates[First(active)]
        ELSE candidates[1]

\* str.strip("[]")
RECURSIVE StripBrackets(_)
StripBrackets(str) ==
    IF str = <<>> THEN str
    ELSE IF Head(str) \in {"[", "]"} THEN StripBrackets(Tail(str))
    ELSE IF Last(str) \in {"[", "]"} THEN StripBrackets(SubSeq(str, 1, Len(str) - 1))
    ELSE str

\* lines 219-222: some tag of the priority list is present; line 228 raises
\* when none is
HasPriorityName(station) ==
    \E prop \in {"name:sr-Latn", "name:en", "name"} : prop \in DOMAIN station.properties

\* lines 218-226, when a tag of the priority list is present
station_name_fallback(station) ==
    LET props == station.properties
    IN  StripBrackets(IF "name:sr-Latn" \in DOMAIN props THEN props["name:sr-Latn"]
                      ELSE IF "name:en" \in DOMAIN props THEN props["name:en"]
                      ELSE props["name"])

\* lines 134-144: the test of the scan
IsCandidate(station, stop) ==
    \/ /\ distance(<<LatOf(station), LonOf(station)>>, <<stop.latitude, stop.longitude>>)
              < DistLimit
       /\ station_name_matches(station, stop.name)
    \/ RefMatches(station, stop)

CacheKey(stop) == <<stop.latitude, stop.longitude>>

\* the scan without the fallback of lines 157-167: with no candidate nothing is
\* returned
Scan_NoFallback(stns, stop) ==
    LET candidates == SelectSeq(stns, LAMBDA station : IsCandidate(station, stop))
    IN  IF candidates # <<>>
        THEN LET osm_node == choose_best_osm_node(candidates, stop)
             IN  IF HasPriorityName(osm_node)
                 THEN [outcome |-> "returned",
                       result |-> StopResult(station_name_fallback(osm_node),
                                             LatOf(osm_node), LonOf(osm_node))]
                 ELSE [outcome |-> "raised", result |-> NoResult]
        ELSE [outcome |-> "raised", result |-> NoResult]

\* lines 131-167: the scan and what it yields, without the cache.
\* outcome "raised": station_name_fallback raised the Exception of line 228.
Scan(stns, stop) ==
    LET candidates == SelectSeq(stns, LAMBDA station : IsCandidate(station, stop))
    IN  IF candidates # <<>>
        THEN LET osm_node == choose_best_osm_node(candidates, stop)
             IN  IF HasPriorityName(osm_node)
                 THEN [outcome |-> "returned",
                       result |-> StopResult(station_name_fallback(osm_node),
                                             LatOf(osm_node), LonOf(osm_node))]
                 ELSE [outcome |-> "raised", result |-> NoResult]
        ELSE [outcome |-> "returned",
              result |-> StopResult(stop.name, stop.latitude, stop.longitude)]

\* search_station without the lookup of lines 128-129: every call scans and
\* stores its result
search_station_NoLookup(stns, stop, c) ==
    LET scan == Scan(stns, stop)
    IN  [outcome |-> scan.outcome,
         result |-> scan.result,
         scanned |-> TRUE,
         cache |-> IF scan.outcome = "returned"
                   THEN (CacheKey(stop) :> scan.result) @@ c
                   ELSE c]

\* lines 125-167: the cached Stop when the coordinate pair is in the cache;
\* otherwise the scan, whose result is stored under the pair before it is
\* returned (nothing is stored when the scan raises). scanned: the call walked
\* the station list.
search_station(stns, stop, c) ==
    IF CacheKey(stop) \in DOMAIN c
    THEN [outcome |-> "returned", result |-> c[CacheKey(stop)], scanned |-> FALSE,
          cache |-> c]
    ELSE LET scan == Scan(stns, stop)
         IN  [outcome |-> scan.outcome,
              result |-> scan.result,
              scanned |-> TRUE,
              cache |-> IF scan.outcome = "returned"
                        THEN (CacheKey(stop) :> scan.result) @@ c
                        ELSE c]

NoCall ==
    [stop |-> [name |-> <<>>, latitude |-> 0, longitude |-> 0, id |-> ""],
     outcome |-> "none", result |-> NoResult, scanned |-> FALSE, seenBefore |-> FALSE]

ResolverInit ==
    /\ rpc = "load"
    /\ stations = <<>>
    /\ cache = <<>>
    /\ call = NoCall
    /\ queried = {}
    /\ firstResult = <<>>

\* line 241 (and lines 43-49): stations.geojson is loaded and sorted; the file
\* holds any list of up to MaxStations features of the pool
LoadStations ==
    /\ rpc = "load"
    /\ \E features \in ListsUpTo(FeaturePool, MaxStations) :
          stations' = get_stations(features)
    /\ rpc' = "running"
    /\ UNCHANGED <<cache, call, queried, firstResult>>

\* lines 309, 310, 356: one call search_station(stations, stop) of the run. An
\* Exception out of search_station is caught nowhere (line 428 catches
\* GeneralHafasError and KeyboardInterrupt only): the process ends.
Resolve ==
    /\ rpc = "running"
    /\ \E stop \in StopPool :
          LET r == search_station(stations, stop, cache)
              key == CacheKey(stop)
          IN  /\ cache' = r.cache
              /\ call' = [stop |-> stop, outcome |-> r.outcome, result |-> r.result,
                          scanned |-> r.scanned, seenBefore |-> key \in queried]
              /\ queried' = queried \cup {key}
              /\ firstResult' = IF key \in DOMAIN firstResult \/ r.outcome # "returned"
                                THEN firstResult
                                ELSE (key :> r.result) @@ firstResult
              /\ rpc' = IF r.outcome = "raised" THEN "crashed" ELSE "running"
    /\ UNCHANGED stations

\* --------------------------------------------- update-feed.py: time_to_gtfs
\* Dates are day numbers and datetimes whole seconds since midnight of day 0,
\* all in one timezone; datetime.combine(start_date, min.time()) is the
\* midnight of start_date.
SecondsPerDay == 24 * 60 * 60
Dates == 0..1
\* seconds after midnight the stopover times are drawn from; -1: an instant
\* before midnight of the reference date
SecondsPool ==
    {h * 3600 + m * 60 + sec : h \in (0..MaxHours) \cup {100},
                               m \in {0, 2, 9, 10, 59},
                               sec \in {0, 3, 9, 10, 59}} \cup {-1}

DigitChars == <<"0", "1", "2", "3", "4", "5", "6", "7", "8", "9">>

\* str(n) of an int n >= 0
RECURSIVE Decimal(_)
Decimal(n) ==
    IF n < 10 THEN <<DigitChars[n + 1]>>
    ELSE Decimal(n \div 10) \o <<DigitChars[(n % 10) + 1]>>

\* the format spec :02 of an int: zero-padded to a width of at least 2, the
\* sign counted in the width
Format02(n) ==
    IF n < 0 THEN <<"-">> \o Decimal(-n)
    ELSE IF n < 10 THEN <<"0">> \o Decimal(n)
    ELSE Decimal(n)

\* time_to_gtfs with the hours wrapped at 24
time_to_gtfs_Wrapped(d, t) ==
    LET seconds == t - d * SecondsPerDay
    IN  Format02((seconds \div (60 * 60)) % 24) \o <<":">>
        \o Format02((seconds % (60 * 60)) \div 60) \o <<":">>
        \o Format02(seconds % 60)

\* lines 207-215; // and % round towards minus infinity, as \div and % do
time_to_gtfs(d, t) ==
    LET seconds == t - d * SecondsPerDay
    IN  Format02(seconds \div (60 * 60)) \o <<":">>
        \o Format02((seconds % (60 * 60)) \div 60) \o <<":">>
        \o Format02(seconds % 60)

TimeInit ==
    /\ gtfs_start_date = 0
    /\ gtfs_time = 0
    /\ gtfs_result = <<>>

\* lines 386-393: one call time_to_gtfs(trip.departure.date(), time)
FormatTime ==
    \E d \in Dates, s \in SecondsPool :
        /\ gtfs_start_date' = d
        /\ gtfs_time' = d * SecondsPerDay + s
        /\ gtfs_result' = time_to_gtfs(d, d * SecondsPerDay + s)

\* --------------------------- update-feed.py: startup and the trips of a batch
NoTime == -1        \* stopover.arrival / stopover.departure is None

\* hashlib.sha256(s.encode()).hexdigest(), kept symbolic: the digest of s
sha256(str) == [sha256 |-> str]

\* service_id deriving the key from the display name of the trip
service_id_OfName(trip_id) == sha256(<<"s", "e", "r", "v", "i", "c", "e">> \o trip.name)

\* lines 195-196: the parameter is not used, the body reads the global trip
service_id(trip_id) == sha256(<<"s", "e", "r", "v", "i", "c", "e">> \o trip.id)

Letters ==
    {"a", "b", "c", "d", "e", "f", "g", "h", "i", "j", "k", "l", "m", "n", "o", "p", "q",
     "r", "s", "t", "u", "v", "w", "x", "y", "z", "A", "B", "C", "D", "E", "F", "G", "H",
     "I", "J", "K", "L", "M", "N", "O", "P", "Q", "R", "S", "T", "U", "V", "W", "X", "Y",
     "Z"}

\* no route category: the None of line 204
NoCategory == <<>>

\* lines 199-204: name.split(" ") has two parts or more when name holds a
\* space; parts[0] is what precedes the first space, "".join(parts[1:]) what
\* follows it with every space removed. <<route_type, trip_name>>
split_trip_name(name) ==
    LET spaces == {i \in 1..Len(name) : name[i] = " "}
    IN  IF spaces = {} THEN <<NoCategory, name>>
        ELSE LET first == CHOOSE i \in spaces : \A j \in spaces : i <= j
                 head == SubSeq(name, 1, first - 1)
                 rest == SubSeq(name, first + 1, Len(name))
             IN  IF head # <<>> /\ \A i \in 1..Len(head) : head[i] \in Letters
                 THEN <<head, SelectSeq(rest, LAMBDA c : c # " ")>>
                 ELSE <<NoCategory, name>>

\* line 192 is reached: the mode is neither Mode.BUS nor Mode.TRAIN
KnownMode(mode) == mode \in {"BUS", "TRAIN"}

\* lines 170-190, for a known mode
mode_to_route_type(mode, route_type) ==
    IF mode = "BUS" THEN 3
    ELSE IF route_type \in {<<"R">>, <<"E">>} THEN 106
    ELSE IF route_type \in {<<"I", "C">>, <<"E", "C">>, <<"D">>} THEN 102
    ELSE 2

\* the operator id of the configuration document (config["operator"]["id"])
operator_id == "zpcg"

\* "insert or replace into <table> values (...)": the row replaces the row of
\* the same primary key, if any
Upsert(table, key, row) == (key :> row) @@ table

Tables == {"routes", "trips", "calendar_dates", "stops", "stop_times"}
\* lines 26-40 on a new file: every table exists and is empty
EmptyStore == [t \in Tables |-> <<>>]

\* ---- the inputs
\* stations.geojson: no feature; the station of Bar; a station carrying a
\* reference code and no name
GeojsonPool ==
    { <<>>,
      <<Feature(11, 11, ("name" :> nBar) @@ ("railway" :> "station"))>>,
      <<Feature(800, 950, ("ref:ibnr" :> "8100001") @@ ("railway" :> "station"))>> }

\* the file as the process knows it: not read yet, missing, or its features
UnreadFile == [state |-> "unread", features |-> <<>>]
MissingFile == [state |-> "missing", features |-> <<>>]
PresentFile(features) == [state |-> "present", features |-> features]

\* timetable stops; sBar and sUlcinj are reported at the same coordinates
sBar == [name |-> nBar, latitude |-> 10, longitude |-> 10, id |-> "8100001"]
sUlcinj == [name |-> nUlcinj, latitude |-> 10, longitude |-> 10, id |-> "8100002"]
sNiksic == [name |-> nNiksic, latitude |-> 300, longitude |-> 300, id |-> "8100003"]
sTuzi == [name |-> nTuzi, latitude |-> 900, longitude |-> 900, id |-> "8100004"]

Stopover(stop, arrival, departure) ==
    [stop |-> stop, arrival |-> arrival, departure |-> departure]

\* what client.trip returns: date is trip.departure.date()
Trip(id, name, cancelled, date, stopovers) ==
    [id |-> id, name |-> name, mode |-> "TRAIN", cancelled |-> cancelled, date |-> date,
     stopovers |-> stopovers]

\* a regional train Bar - Niksic; at Tuzi it has neither arrival nor departure
Trip1(date, cancelled) ==
    Trip(<<"t", "1">>, <<"R", " ", "6", "1", "0", "0">>, cancelled, date,
         << Stopover(sBar, NoTime, date * SecondsPerDay + 3723),
            Stopover(sTuzi, NoTime, NoTime),
            Stopover(sNiksic, date * SecondsPerDay + 90000, NoTime) >>)

\* an intercity train Ulcinj - Niksic
Trip2(date) ==
    Trip(<<"t", "2">>, <<"I", "C", " ", "4", "3", "1">>, FALSE, date,
         << Stopover(sUlcinj, NoTime, date * SecondsPerDay + 3600),
            Stopover(sNiksic, date * SecondsPerDay + 7200, date * SecondsPerDay + 7260) >>)

\* the first train as the backend reports it once it ends at Tuzi: the stopover
\* at Niksic has lost its times
Trip1Cut(date) ==
    Trip(<<"t", "1">>, <<"R", " ", "6", "1", "0", "0">>, FALSE, date,
         << Stopover(sBar, NoTime, date * SecondsPerDay + 3723),
            Stopover(sTuzi, NoTime, NoTime),
            Stopover(sNiksic, NoTime, NoTime) >>)

\* the trips client.trip may return: the first train on day 0 operating,
\* cancelled and cut short, the same train on day 1, the second train on day 0
TripPool == {Trip1(0, FALSE), Trip1(0, TRUE), Trip1(1, FALSE), Trip1Cut(0), Trip2(0)}

NoTrip == Trip(<<>>, <<>>, FALSE, 0, <<>>)

FeedInit ==
    /\ fpc = "config"
    /\ geojson = UnreadFile
    /\ db_opened = FALSE
    /\ backend_called = FALSE
    /\ failure = "none"
    /\ store = EmptyStore
    /\ db_file = EmptyStore
    /\ trip = NoTrip
    /\ start = NoResult
    /\ dest = NoResult
    /\ sequence = 0
    /\ stopover_i = 0
    /\ ntrips = 0
    /\ runs = 1
    /\ written = <<>>
    /\ store_before = EmptyStore
    /\ done = <<>>
    /\ interrupts = 0

\* lines 231-233: the configuration document is there
LoadConfig ==
    /\ fpc = "config"
    /\ fpc' = "prepare"
    /\ UNCHANGED <<interrupts, store_before, geojson, db_opened, backend_called, failure, store,
                   db_file, trip, start, dest, sequence, stopover_i, ntrips, runs,
                   written, done, stations, cache>>

\* line 231: open() raises FileNotFoundError
LoadConfigMissing ==
    /\ fpc = "config"
    /\ fpc' = "failed"
    /\ failure' = "config"
    /\ UNCHANGED <<interrupts, store_before, geojson, db_opened, backend_called, store, db_file,
                   trip, start, dest, sequence, stopover_i, ntrips, runs, written,
                   done, stations, cache>>

\* lines 235-236 (26-40): the store file is opened, created when absent, and the
\* tables are created when absent
PrepareDatabase ==
    /\ fpc = "prepare"
    /\ db_opened' = TRUE
    /\ store' = db_file
    /\ fpc' = "get_stations"
    /\ UNCHANGED <<interrupts, store_before, geojson, backend_called, failure, db_file, trip,
                   start, dest, sequence, stopover_i, ntrips, runs, written, done,
                   stations, cache>>

\* line 241 (43-49): stations.geojson is there; every read of it sees the same
\* content
GetStations ==
    /\ fpc = "get_stations"
    /\ \E features \in GeojsonPool :
          /\ geojson \in {UnreadFile, PresentFile(features)}
          /\ geojson' = PresentFile(features)
          /\ stations' = get_stations(features)
    /\ fpc' = "locations"
    /\ UNCHANGED <<interrupts, store_before, db_opened, backend_called, failure, store, db_file,
                   trip, start, dest, sequence, stopover_i, ntrips, runs, written,
                   done, cache>>

\* line 44: open() raises FileNotFoundError
GetStationsMissing ==
    /\ fpc = "get_stations"
    /\ geojson \in {UnreadFile, MissingFile}
    /\ geojson' = MissingFile
    /\ fpc' = "failed"
    /\ failure' = "geojson"
    /\ UNCHANGED <<interrupts, store_before, db_opened, backend_called, store, db_file, trip,
                   start, dest, sequence, stopover_i, ntrips, runs, written, done,
                   stations, cache>>

\* lines 243-263: the place is resolved by the backend; the for-loop of line
\* 305 is entered with the batches the backend returns
Locations ==
    /\ fpc = "locations"
    /\ backend_called' = TRUE
    /\ fpc' = "departure"
    /\ UNCHANGED <<interrupts, store_before, geojson, db_opened, failure, store, db_file, trip,
                   start, dest, sequence, stopover_i, ntrips, runs, written, done,
                   stations, cache>>

\* lines 305-307: the next departure of a batch; client.trip returns its trip
BeginTrip ==
    /\ fpc = "departure"
    /\ ntrips < MaxTrips
    /\ \E t \in TripPool : trip' = t
    /\ ntrips' = ntrips + 1
    /\ written' = <<>>
    /\ store_before' = store
    /\ fpc' = "resolve"
    /\ UNCHANGED <<interrupts, geojson, db_opened, backend_called, failure, store,
                   db_file, start, dest, sequence, stopover_i, runs, done, stations, cache>>

\* lines 309-310: the first and the last stop are resolved. An Exception out
\* of search_station is caught nowhere: the process ends.
ResolveEnds ==
    /\ fpc = "resolve"
    /\ LET first == search_station(stations, trip.stopovers[1].stop, cache)
           last == search_station(stations, Last(trip.stopovers).stop, first.cache)
       IN  IF first.outcome = "raised"
           THEN /\ fpc' = "crashed"
                /\ failure' = "resolver"
                /\ UNCHANGED <<start, dest, cache>>
           ELSE IF last.outcome = "raised"
           THEN /\ fpc' = "crashed"
                /\ failure' = "resolver"
                /\ start' = first.result
                /\ cache' = first.cache
                /\ UNCHANGED dest
           ELSE /\ fpc' = "routes"
                /\ start' = first.result
                /\ dest' = last.result
                /\ cache' = last.cache
                /\ UNCHANGED failure
    /\ UNCHANGED <<interrupts, store_before, geojson, db_opened, backend_called, store, db_file,
                   trip, sequence, stopover_i, ntrips, runs, written, done, stations>>

\* the routes upsert keyed by the short name of line 307 instead of trip.name
UpsertRoute_KeyedByShortName ==
    /\ fpc = "routes"
    /\ IF KnownMode(trip.mode)
       THEN LET row == [agency_id |-> operator_id,
                        route_long_name |-> start.name \o <<" ", "-", " ">> \o dest.name,
                        route_type |-> mode_to_route_type(trip.mode,
                                                          split_trip_name(trip.name)[1])]
                key == split_trip_name(trip.name)[2]
            IN  /\ store' = [store EXCEPT !.routes = Upsert(@, key, row)]
                /\ written' = Append(written, [table |-> "routes", key |-> key,
                                               row |-> row, stopover |-> 0])
                /\ fpc' = "trips"
                /\ UNCHANGED failure
       ELSE /\ fpc' = "crashed"
            /\ failure' = "mode"
            /\ UNCHANGED <<store, written>>
    /\ UNCHANGED <<interrupts, store_before, geojson, db_opened, backend_called, db_file, trip,
                   start, dest, sequence, stopover_i, ntrips, runs, done, stations,
                   cache>>

\* lines 312-326; mode_to_route_type raises for an unknown mode (line 192)
UpsertRoute ==
    /\ fpc = "routes"
    /\ IF KnownMode(trip.mode)
       THEN LET row == [agency_id |-> operator_id,
                        route_long_name |-> start.name \o <<" ", "-", " ">> \o dest.name,
                        route_type |-> mode_to_route_type(trip.mode,
                                                          split_trip_name(trip.name)[1])]
            IN  /\ store' = [store EXCEPT !.routes = Upsert(@, trip.name, row)]
                /\ written' = Append(written, [table |-> "routes", key |-> trip.name,
                                               row |-> row, stopover |-> 0])
                /\ fpc' = "trips"
                /\ UNCHANGED failure
       ELSE /\ fpc' = "crashed"
            /\ failure' = "mode"
            /\ UNCHANGED <<store, written>>
    /\ UNCHANGED <<interrupts, store_before, geojson, db_opened, backend_called, db_file, trip,
                   start, dest, sequence, stopover_i, ntrips, runs, done, stations,
                   cache>>

\* lines 327-341
UpsertTrip ==
    /\ fpc = "trips"
    /\ LET key == sha256(trip.id)
           row == [route_id |-> trip.name,
                   service_id |-> service_id(trip.id),
                   trip_headsign |-> dest.name,
                   trip_short_name |-> split_trip_name(trip.name)[2]]
       IN  /\ store' = [store EXCEPT !.trips = Upsert(@, key, row)]
           /\ written' = Append(written, [table |-> "trips", key |-> key, row |-> row,
                                          stopover |-> 0])
    /\ fpc' = "calendar_dates"
    /\ UNCHANGED <<interrupts, store_before, geojson, db_opened, backend_called, failure, db_file,
                   trip, start, dest, sequence, stopover_i, ntrips, runs, done,
                   stations, cache>>

\* the calendar upsert with the two flags exchanged
UpsertCalendar_Inverted ==
    /\ fpc = "calendar_dates"
    /\ LET key == <<service_id(trip.id), trip.date>>
           row == [exception_type |-> IF trip.cancelled THEN 1 ELSE 0]
       IN  /\ store' = [store EXCEPT !.calendar_dates = Upsert(@, key, row)]
           /\ written' = Append(written, [table |-> "calendar_dates", key |-> key,
                                          row |-> row, stopover |-> 0])
    /\ sequence' = 1
    /\ stopover_i' = 1
    /\ fpc' = "stopover"
    /\ UNCHANGED <<interrupts, store_before, geojson, db_opened, backend_called, failure, db_file,
                   trip, start, dest, ntrips, runs, done, stations, cache>>

\* the calendar upsert on a table keyed by service_id alone: the row replaces
\* every row of the service
UpsertCalendar_KeyedByService ==
    /\ fpc = "calendar_dates"
    /\ LET key == <<service_id(trip.id), trip.date>>
           row == [exception_type |-> IF trip.cancelled THEN 0 ELSE 1]
           others == {k \in DOMAIN store.calendar_dates : k[1] # key[1]}
       IN  /\ store' = [store EXCEPT !.calendar_dates =
                                         Upsert([k \in others |-> @[k]], key, row)]
           /\ written' = Append(written, [table |-> "calendar_dates", key |-> key,
                                          row |-> row, stopover |-> 0])
    /\ sequence' = 1
    /\ stopover_i' = 1
    /\ fpc' = "stopover"
    /\ UNCHANGED <<interrupts, store_before, geojson, db_opened, backend_called, failure, db_file,
                   trip, start, dest, ntrips, runs, done, stations, cache>>

\* lines 343-355: the calendar exception of the trip's reference date, then the
\* stopover loop is entered
UpsertCalendar ==
    /\ fpc = "calendar_dates"
    /\ LET key == <<service_id(trip.id), trip.date>>
           row == [exception_type |-> IF trip.cancelled THEN 0 ELSE 1]
       IN  /\ store' = [store EXCEPT !.calendar_dates = Upsert(@, key, row)]
           /\ written' = Append(written, [table |-> "calendar_dates", key |-> key,
                                          row |-> row, stopover |-> 0])
    /\ sequence' = 1
    /\ stopover_i' = 1
    /\ fpc' = "stopover"
    /\ UNCHANGED <<interrupts, store_before, geojson, db_opened, backend_called, failure, db_file,
                   trip, start, dest, ntrips, runs, done, stations, cache>>

\* lines 355-377: the stop of the next stopover is resolved and its stops row
\* upserted
UpsertStop ==
    /\ fpc = "stopover"
    /\ stopover_i <= Len(trip.stopovers)
    /\ LET stopover == trip.stopovers[stopover_i]
           station_metadata == search_station(stations, stopover.stop, cache)
           row == [stop_name |-> station_metadata.result.name,
                   stop_lat |-> station_metadata.result.lat,
                   stop_lon |-> station_metadata.result.lon]
       IN  /\ cache' = station_metadata.cache
           /\ IF station_metadata.outcome = "raised"
              THEN /\ fpc' = "crashed"
                   /\ failure' = "resolver"
                   /\ UNCHANGED <<store, written>>
              ELSE /\ store' = [store EXCEPT !.stops = Upsert(@, stopover.stop.id, row)]
                   /\ written' = Append(written, [table |-> "stops",
                                                  key |-> stopover.stop.id,
                                                  row |-> row, stopover |-> stopover_i])
                   /\ fpc' = "stop_times"
                   /\ UNCHANGED failure
    /\ UNCHANGED <<interrupts, store_before, geojson, db_opened, backend_called, db_file, trip,
                   start, dest, sequence, stopover_i, ntrips, runs, done, stations>>

\* the skip of lines 378-380 with the sequence counter advanced
SkipStopover_Counting ==
    /\ fpc = "stop_times"
    /\ trip.stopovers[stopover_i].departure = NoTime
    /\ trip.stopovers[stopover_i].arrival = NoTime
    /\ sequence' = sequence + 1
    /\ stopover_i' = stopover_i + 1
    /\ fpc' = "stopover"
    /\ UNCHANGED <<interrupts, store_before, geojson, db_opened, backend_called, failure, store,
                   db_file, trip, start, dest, ntrips, runs, written, done, stations,
                   cache>>

\* lines 378-380: a stopover with neither time is left by continue
SkipStopover ==
    /\ fpc = "stop_times"
    /\ trip.stopovers[stopover_i].departure = NoTime
    /\ trip.stopovers[stopover_i].arrival = NoTime
    /\ stopover_i' = stopover_i + 1
    /\ fpc' = "stopover"
    /\ UNCHANGED <<interrupts, store_before, geojson, db_opened, backend_called, failure, store,
                   db_file, trip, start, dest, sequence, ntrips, runs, written, done,
                   stations, cache>>

\* lines 382-404
UpsertStopTime ==
    /\ fpc = "stop_times"
    /\ LET stopover == trip.stopovers[stopover_i]
           key == <<sha256(trip.id), sequence>>
           row == [arrival_time |->
                       time_to_gtfs(trip.date, IF stopover.arrival # NoTime
                                               THEN stopover.arrival
                                               ELSE stopover.departure),
                   departure_time |->
                       time_to_gtfs(trip.date, IF stopover.departure # NoTime
                                               THEN stopover.departure
                                               ELSE stopover.arrival),
                   stop_id |-> stopover.stop.id]
       IN  /\ ~(stopover.departure = NoTime /\ stopover.arrival = NoTime)
           /\ store' = [store EXCEPT !.stop_times = Upsert(@, key, row)]
           /\ written' = Append(written, [table |-> "stop_times", key |-> key,
                                          row |-> row, stopover |-> stopover_i])
    /\ sequence' = sequence + 1
    /\ stopover_i' = stopover_i + 1
    /\ fpc' = "stopover"
    /\ UNCHANGED <<interrupts, store_before, geojson, db_opened, backend_called, failure, db_file,
                   trip, start, dest, ntrips, runs, done, stations, cache>>

\* line 355, the list is exhausted: the trip is processed, the for-loop of line
\* 305 goes on
EndTrip ==
    /\ fpc = "stopover"
    /\ stopover_i > Len(trip.stopovers)
    /\ done' = <<[trip |-> trip, store |-> store, run |-> runs]>>
    /\ fpc' = "departure"
    /\ UNCHANGED <<interrupts, store_before, geojson, db_opened, backend_called, failure, store,
                   db_file, trip, start, dest, sequence, stopover_i, ntrips, runs,
                   written, stations, cache>>

\* lines 428-430: KeyboardInterrupt arrives in the middle of a trip; the except
\* clause breaks out of the while-loop with the rows written so far left on
\* the connection, and the for-loop of line 238 goes on with the batches of
\* the next station
InterruptTrip ==
    /\ fpc \in {"resolve", "routes", "trips", "calendar_dates", "stopover", "stop_times"}
    /\ interrupts < MaxInterrupts
    /\ interrupts' = interrupts + 1
    /\ fpc' = "departure"
    /\ trip' = NoTrip
    /\ written' = <<>>
    /\ UNCHANGED <<store_before, geojson, db_opened, backend_called, failure, store,
                   db_file, start, dest, sequence, stopover_i, ntrips, runs, done,
                   stations, cache>>

\* line 413, after the last trip of a batch was processed to its end
CommitBatch ==
    /\ fpc = "departure"
    /\ trip # NoTrip
    /\ db_file # store
    /\ db_file' = store
    /\ UNCHANGED <<interrupts, store_before, fpc, geojson, db_opened, backend_called, failure,
                   store, trip, start, dest, sequence, stopover_i, ntrips, runs,
                   written, done, stations, cache>>

\* the process has ended, by its end or by an uncaught exception, and is run
\* again: what the connection had not committed is lost, the cache of
\* search_station is a new dict
NewRun ==
    /\ fpc \in {"departure", "crashed"}
    /\ runs < MaxRuns
    /\ runs' = runs + 1
    /\ fpc' = "config"
    /\ failure' = "none"
    /\ db_opened' = FALSE
    /\ backend_called' = FALSE
    /\ store' = db_file
    /\ stations' = <<>>
    /\ cache' = <<>>
    /\ trip' = NoTrip
    /\ start' = NoResult
    /\ dest' = NoResult
    /\ sequence' = 0
    /\ stopover_i' = 0
    /\ written' = <<>>
    /\ interrupts' = 0
    /\ UNCHANGED <<store_before, geojson, db_file, ntrips, done>>

\* ------------------------------------------------------------------ claims
\* C1: the watermark never regresses: the value a committed iteration writes to
\* the watermark file is at least the watermark the iteration started from (the
\* value persisted by the preceding committed iteration, or the session's
\* starting watermark) and at least the session's starting watermark.
C1_WatermarkNeverRegresses ==
    pc = "check" =>
        /\ timestamp_file[st] >= latest_time
        /\ timestamp_file[st] >= startWm

\* C2: no row of a batch that an upstream error or an interruption cut short is
\* ever committed, neither by its own session nor by a later session's commit.
C2_NoPartialBatchCommitted ==
    \A r \in committed : <<r[1], r[2]>> \notin aborted

\* C3: whenever the watermark file of a station holds the value written by
\* iteration i of its session, every row of that batch and of every earlier
\* batch of the session is committed: the file is never ahead of the store.
C3_WatermarkNeverAheadOfStore ==
    \A s \in StationIds :
        wmIter[s] >= 1 =>
            \A r \in fetched : (r[1] = s /\ r[2] <= wmIter[s]) => r \in committed

\* C3 happens: the file holds the first iteration's watermark while the second
\* batch of the same session is half written and uncommitted.
C3_Witness ==
    /\ pc = "trips"
    /\ wmIter[st] = 1
    /\ iter = 2
    /\ <<st, 2, 1>> \in pending
    /\ <<st, 1, 1>> \in committed

\* C4: the loop goes round for another fetch only after a non-empty batch whose
\* newly computed watermark is strictly later than the previous watermark; an
\* empty batch, or an equal or earlier watermark, stops the session.
C4_RefetchOnlyOnStrictAdvance ==
    [][/\ (pc = "check" /\ pc' = "fetch") =>
              (departures # <<>> /\ latest_time_end > latest_time)
       /\ (pc = "fetch" /\ pc' = "trips") => departures' # <<>>]_vars

\* C5: when both lists of an iteration are non-empty, the watermark it computes
\* is the minimum of the last departure's and the last arrival's instant, so it
\* is never later than the last departure's instant.
C5_WatermarkIsMinOfLatest ==
    (pc \in {"write", "check"} /\ dep_result # <<>> /\ arr_result # <<>>) =>
        /\ latest_time_end = Min(Last(dep_result), Last(arr_result))
        /\ latest_time_end <= Last(dep_result)

\* C6: after any backend call of a station (place resolution, departures,
\* arrivals, trip detail) fails with the upstream error, the process is at the
\* start of the next station's session or at the export: the run is not aborted.
C6_UpstreamErrorEndsOnlyTheSession ==
    lastErr \in BackendCalls => pc \in {"locate", "export", "done"}

\* C7: search_station never raises: every call returns a Stop with a name, a
\* latitude and a longitude, whatever tags the features carry.
C7_ResolveNeverRaises ==
    /\ call.outcome \in {"none", "returned"}
    /\ DOMAIN call.result = {"name", "lat", "lon"}

\* C8: the cache never changes a result: every call returns what a resolver
\* without a cache returns for that stop against the same station list.
C8_CacheOnlyAffectsPerformance ==
    call.outcome = "returned" =>
        Scan(stations, call.stop) = [outcome |-> "returned", result |-> call.result]

\* C9: a call for a coordinate pair queried before returns what the first call
\* for that pair returned, without scanning the station list; and no call
\* changes or removes an entry the cache already holds.
C9_CachedResultIsStable ==
    [][/\ call'.seenBefore =>
              /\ call'.outcome = "returned"
              /\ ~call'.scanned
              /\ CacheKey(call'.stop) \in DOMAIN firstResult
              /\ call'.result = firstResult[CacheKey(call'.stop)]
       /\ \A key \in DOMAIN cache :
              key \in DOMAIN cache' /\ cache'[key] = cache[key]]_vars

\* C9 happens: both coordinate pairs are cached, and the last call, for a pair
\* queried before and with another stop name than the one cached for it (a
\* fallback), was answered from the cache.
C9_Witness ==
    /\ DOMAIN cache = {<<10, 10>>, <<300, 300>>}
    /\ call.seenBefore
    /\ call.outcome = "returned"
    /\ ~call.scanned
    /\ call.result.name = nUlcinj
    /\ call.stop.name = nBar

\* C10: when some feature carries the stop's identifier as its reference code,
\* a call for a pair not yet cached returns the display name and coordinates of
\* a feature carrying that code.
C10_ReferenceCodeWins ==
    (/\ call.outcome # "none"
     /\ call.scanned
     /\ \E i \in 1..Len(stations) : RefMatches(stations[i], call.stop)) =>
        /\ call.outcome = "returned"
        /\ \E i \in 1..Len(stations) :
              /\ RefMatches(stations[i], call.stop)
              /\ HasPriorityName(stations[i])
              /\ call.result = StopResult(station_name_fallback(stations[i]),
                                          LatOf(stations[i]), LonOf(stations[i]))

\* C11: when no feature carries the stop's identifier as reference code and no
\* feature is both within the distance limit and name-plausible, a call for a
\* coordinate pair not yet cached returns the stop's own name, latitude and
\* longitude, does not raise, and the cache holds that result under the pair.
C11_FallbackIsRawStop ==
    (/\ call.outcome # "none"
     /\ call.scanned
     /\ \A i \in 1..Len(stations) : ~IsCandidate(stations[i], call.stop)) =>
        /\ call.outcome = "returned"
        /\ call.result = StopResult(call.stop.name, call.stop.latitude, call.stop.longitude)
        /\ CacheKey(call.stop) \in DOMAIN cache
        /\ cache[CacheKey(call.stop)] = call.result

\* C11 happens: the last call scanned a station list holding a feature within
\* the distance limit of the stop whose name is not plausible for it, found no
\* candidate and returned the stop itself.
C11_Witness ==
    /\ call.scanned
    /\ call.outcome = "returned"
    /\ call.stop.name = nUlcinj
    /\ \E i \in 1..Len(stations) :
          distance(<<LatOf(stations[i]), LonOf(stations[i])>>,
                   <<call.stop.latitude, call.stop.longitude>>) < DistLimit
    /\ \A i \in 1..Len(stations) : ~IsCandidate(stations[i], call.stop)
    /\ call.result.name = nUlcinj
    /\ cache[CacheKey(call.stop)] = call.result

\* C20: for a non-empty candidate list, choose_best_osm_node returns the first
\* candidate whose reference code is the stop's identifier; failing that, the
\* first candidate tagged railway=station, railway=halt or
\* public_transport=station that carries neither an abandoned nor a disused
\* marker; failing that, the first candidate.
C20_CandidateRanking ==
    LET candidates == SelectSeq(stations, LAMBDA station : IsCandidate(station, call.stop))
        byRef == {i \in 1..Len(candidates) : RefMatches(candidates[i], call.stop)}
        active == {i \in 1..Len(candidates) :
                      LET props == candidates[i].properties
                      IN  /\ \/ /\ "railway" \in DOMAIN props
                                /\ props["railway"] \in {"station", "halt"}
                             \/ /\ "public_transport" \in DOMAIN props
                                /\ props["public_transport"] = "station"
                          /\ "abandoned:railway" \notin DOMAIN props
                          /\ "disused:railway" \notin DOMAIN props}
    IN  (call.outcome # "none" /\ call.scanned /\ candidates # <<>>) =>
            choose_best_osm_node(candidates, call.stop) =
                IF byRef # {} THEN candidates[First(byRef)]
                ELSE IF active # {} THEN candidates[First(active)]
                ELSE candidates[1]

\* C18: for an instant s >= 0 whole seconds after midnight of the reference
\* date, time_to_gtfs returns HH:MM:SS with HH = s div 3600 (not wrapped at
\* 24), MM = (s mod 3600) div 60, SS = s mod 60, each zero-padded to two
\* digits; 3723 gives "01:02:03" and 90000 gives "25:00:00".
C18_TimeToGtfs ==
    LET s == gtfs_time - gtfs_start_date * 86400
        r == gtfs_result
        n == Len(r)
        digits == <<"0", "1", "2", "3", "4", "5", "6", "7", "8", "9">>
        IsDigit(c) == \E k \in 1..10 : digits[k] = c
        D(c) == (CHOOSE k \in 1..10 : digits[k] = c) - 1
    IN  (r # <<>> /\ s >= 0) =>
            /\ n \in {8, 9}
            /\ r[n - 5] = ":"
            /\ r[n - 2] = ":"
            /\ \A i \in (1..n) \ {n - 5, n - 2} : IsDigit(r[i])
            /\ 10 * D(r[n - 4]) + D(r[n - 3]) = (s % 3600) \div 60
            /\ 10 * D(r[n - 1]) + D(r[n]) = s % 60
            /\ n = 8 => 10 * D(r[1]) + D(r[2]) = s \div 3600
            /\ n = 9 => /\ 100 * D(r[1]) + 10 * D(r[2]) + D(r[3]) = s \div 3600
                        /\ r[1] # "0"
            /\ s = 3723 => r = <<"0", "1", ":", "0", "2", ":", "0", "3">>
            /\ s = 90000 => r = <<"2", "5", ":", "0", "0", ":", "0", "0">>

\* C18 happens: the last call formatted an instant 25 hours after midnight of
\* day 1.
C18_Witness ==
    /\ gtfs_start_date = 1
    /\ gtfs_time = 86400 + 90000
    /\ gtfs_result = <<"2", "5", ":", "0", "0", ":", "0", "0">>

\* C12: processing a trip that is the same as the trip processed just before
\* (same id, name, mode, cancellation flag, reference date and stopovers), in
\* the same run or in a later one, on the store as the first of the two
\* processings left it, leaves every table as it was after the first.
C12_ReprocessingIsIdempotent ==
    (/\ fpc = "stopover"
     /\ stopover_i > Len(trip.stopovers)
     /\ done # <<>>
     /\ done[1].trip = trip
     /\ store_before = done[1].store) => store = done[1].store

\* C13: every processing of a trip with backend id t writes the trips row
\* under trip_id = sha256(t) with service_id = sha256("service" + t), and its
\* calendar_dates row and stop_times rows under these same keys, whatever was
\* processed before.
C13_KeysDependOnTripIdOnly ==
    LET H == [sha256 |-> trip.id]
        S == [sha256 |-> <<"s", "e", "r", "v", "i", "c", "e">> \o trip.id]
    IN  /\ \A i \in 1..Len(written) :
               LET w == written[i]
               IN  /\ w.table = "trips" => (w.key = H /\ w.row.service_id = S)
                   /\ w.table = "calendar_dates" => w.key[1] = S
                   /\ w.table = "stop_times" => w.key[1] = H
        /\ fpc \in {"calendar_dates", "stopover", "stop_times"} =>
               /\ H \in DOMAIN store.trips
               /\ store.trips[H].service_id = S
               /\ \E i \in 1..Len(written) : written[i].table = "trips"

\* C13 happens: after a trip with another id, a trip is processed to its end
\* and has written its trips, calendar_dates and stop_times rows.
C13_Witness ==
    /\ fpc = "stopover"
    /\ stopover_i > Len(trip.stopovers)
    /\ done # <<>>
    /\ done[1].trip.id = <<"t", "2">>
    /\ trip.id = <<"t", "1">>
    /\ \E i \in 1..Len(written) : written[i].table = "stop_times"
    /\ \E i \in 1..Len(written) : written[i].table = "calendar_dates"

\* C14: processing a trip writes one calendar_dates row, at the calendar
\* upsert and nowhere else: (service id of the trip, reference date of the
\* trip) with flag 0 if and only if the trip is cancelled and 1 otherwise; every
\* other row of calendar_dates is left as it was, and a trip processed to its
\* end has written that one row.
C14_OneCalendarRowPerTrip ==
    [][LET cd == store.calendar_dates
           cdNext == store'.calendar_dates
           key == <<[sha256 |-> <<"s", "e", "r", "v", "i", "c", "e">> \o trip.id], trip.date>>
       IN  /\ (fpc = "calendar_dates" /\ fpc' = "stopover") =>
                  /\ DOMAIN cdNext = DOMAIN cd \cup {key}
                  /\ (cdNext[key].exception_type = 0) <=> trip.cancelled
                  /\ (cdNext[key].exception_type = 1) <=> ~trip.cancelled
                  /\ \A k \in DOMAIN cd \ {key} : cdNext[k] = cd[k]
           /\ fpc \in {"resolve", "routes", "trips", "stopover", "stop_times"} =>
                  cdNext = cd
           /\ (fpc = "stopover" /\ fpc' = "departure") =>
                  Cardinality({i \in 1..Len(written) :
                                  written[i].table = "calendar_dates"}) = 1]_vars

\* C14 happens: the trip was seen cancelled on day 0 and is now processed to
\* its end operating on day 1; both rows are in the store.
C14_Witness ==
    LET S == [sha256 |-> <<"s", "e", "r", "v", "i", "c", "e", "t", "1">>]
    IN  /\ fpc = "stopover"
        /\ stopover_i > Len(trip.stopovers)
        /\ done # <<>>
        /\ done[1].trip = Trip1(0, TRUE)
        /\ trip = Trip1(1, FALSE)
        /\ <<S, 0>> \in DOMAIN store.calendar_dates
        /\ <<S, 1>> \in DOMAIN store.calendar_dates
        /\ store.calendar_dates[<<S, 0>>].exception_type = 0
        /\ store.calendar_dates[<<S, 1>>].exception_type = 1

\* C15, as stated: once a calendar_dates row is in the store, no step of the
\* processing of any trip removes it or changes its flag.
C15_CalendarIsAppendOnly ==
    [][(fpc \in {"resolve", "routes", "trips", "calendar_dates", "stopover", "stop_times"}) =>
           \A k \in DOMAIN store.calendar_dates :
               /\ k \in DOMAIN store'.calendar_dates
               /\ store'.calendar_dates[k] = store.calendar_dates[k]]_vars

\* C15, amended: no step of the processing of any trip removes a
\* calendar_dates row; the flag of a row changes only at the calendar upsert
\* of a trip with the row's service id and reference date, and is then 0 if
\* that trip is cancelled and 1 otherwise.
C15_CalendarRowsAreNeverRemoved ==
    [][(fpc \in {"resolve", "routes", "trips", "calendar_dates", "stopover", "stop_times"}) =>
           \A k \in DOMAIN store.calendar_dates :
               /\ k \in DOMAIN store'.calendar_dates
               /\ store'.calendar_dates[k] # store.calendar_dates[k] =>
                      /\ fpc = "calendar_dates"
                      /\ k[1] = [sha256 |-> <<"s", "e", "r", "v", "i", "c", "e">> \o trip.id]
                      /\ k[2] = trip.date
                      /\ store'.calendar_dates[k].exception_type =
                             (IF trip.cancelled THEN 0 ELSE 1)]_vars

\* C15 happens: the trip was processed operating on day 0, then cancelled on
\* day 0: the flag of its row is 0 now, beside the row of another service.
C15_Witness ==
    LET S == [sha256 |-> <<"s", "e", "r", "v", "i", "c", "e", "t", "1">>]
    IN  /\ fpc = "stopover"
        /\ stopover_i > Len(trip.stopovers)
        /\ done # <<>>
        /\ done[1].trip = Trip1(0, FALSE)
        /\ done[1].store.calendar_dates[<<S, 0>>].exception_type = 1
        /\ trip = Trip1(0, TRUE)
        /\ <<S, 0>> \in DOMAIN store.calendar_dates
        /\ store.calendar_dates[<<S, 0>>].exception_type = 0
        /\ Cardinality(DOMAIN store.calendar_dates) = 2

\* C16: the stop_times rows written during the processing of a trip carry
\* stop_sequence 1, 2, ..., k in the order of the stopovers, the n-th row being
\* that of the n-th stopover having an arrival or a departure time; a skipped
\* stopover takes no number, and a trip processed to its end has written k
\* rows, k the number of its stopovers having a time.
C16_StopSequence ==
    LET rows == SelectSeq(written, LAMBDA w : w.table = "stop_times")
        timed == {i \in 1..Len(trip.stopovers) :
                     \/ trip.stopovers[i].arrival # NoTime
                     \/ trip.stopovers[i].departure # NoTime}
    IN  /\ \A n \in 1..Len(rows) :
               /\ rows[n].key[2] = n
               /\ rows[n].stopover \in timed
               /\ Cardinality({i \in timed : i <= rows[n].stopover}) = n
               /\ rows[n].row.stop_id = trip.stopovers[rows[n].stopover].stop.id
        /\ (fpc = "departure" /\ trip # NoTrip) => Len(rows) = Cardinality(timed)

\* C16 happens: a trip whose second stopover has no time is processed to its
\* end; its third stopover got sequence number 2.
C16_Witness ==
    /\ fpc = "departure"
    /\ trip = Trip1(0, FALSE)
    /\ \E i \in 1..Len(written) :
          /\ written[i].table = "stop_times"
          /\ written[i].stopover = 3
          /\ written[i].key[2] = 2

\* C17: a stopover with neither an arrival nor a departure time is skipped as
\* a whole: no stops row and no stop_times row is written for it.
C17_TimelessStopoverWritesNothing ==
    \A i \in 1..Len(written) :
        written[i].table \in {"stops", "stop_times"} =>
            \/ trip.stopovers[written[i].stopover].arrival # NoTime
            \/ trip.stopovers[written[i].stopover].departure # NoTime

\* C19: when the configuration document or stations.geojson is missing, the
\* process ends before the store file is opened or created and before any call
\* to the timetable backend.
C19_MissingInputFailsBeforeAnyActivity ==
    failure \in {"config", "geojson"} => (~db_opened /\ ~backend_called)

\* C22: in every state, in the middle of a trip and after an exception or an
\* interruption included, and both on the connection and in the committed
\* file: every stop_times row has a trips row of its trip_id and a stops row
\* of its stop_id, and every trips row has a routes row of its route_id.
C22_ReferentialIntegrity ==
    \A s \in {store, db_file} :
        /\ \A k \in DOMAIN s.stop_times :
               /\ k[1] \in DOMAIN s.trips
               /\ s.stop_times[k].stop_id \in DOMAIN s.stops
        /\ \A k \in DOMAIN s.trips : s.trips[k].route_id \in DOMAIN s.routes

\* C22 happens: the committed file holds the second train as an interruption
\* left it, with the first of its two stop_times rows only, while the
\* connection is in the middle of a later trip, between the stops row and the
\* stop_times row of a stopover.
C22_Witness ==
    /\ fpc = "stop_times"
    /\ trip.id = <<"t", "1">>
    /\ sha256(<<"t", "2">>) \in DOMAIN db_file.trips
    /\ {k \in DOMAIN db_file.stop_times : k[1] = sha256(<<"t", "2">>)}
           = {<<sha256(<<"t", "2">>), 1>>}
    /\ store # db_file

\* C24: when a trip has been processed to its end, the stop_times rows stored
\* under its trip key are exactly the rows of this processing: one row for each
\* of the sequence numbers 1..k, k the number of its stopovers having a time,
\* each as this processing wrote it, and no row with a number above k.
C24_NoStaleStopTimes ==
    (fpc = "departure" /\ trip # NoTrip) =>
        LET H == sha256(trip.id)
            rows == SelectSeq(written, LAMBDA w : w.table = "stop_times")
        IN  /\ {k \in DOMAIN store.stop_times : k[1] = H}
                   = {<<H, n>> : n \in 1..Len(rows)}
            /\ \A n \in 1..Len(rows) : store.stop_times[<<H, n>>] = rows[n].row

\* C23: when the watermark file of the station holds a value written in this
\* session, every departure and every arrival of the station's timetable whose
\* instant is not earlier than the session's starting watermark and earlier
\* than the persisted watermark has been fetched by the session.
C23_WatermarkSkipsNothing ==
    wmIter[st] >= 1 =>
        /\ \A i \in 1..Len(timetable.dep) :
               (startWm <= timetable.dep[i] /\ timetable.dep[i] < timestamp_file[st]) =>
                   <<"departure", i>> \in seen
        /\ \A i \in 1..Len(timetable.arr) :
               (startWm <= timetable.arr[i] /\ timetable.arr[i] < timestamp_file[st]) =>
                   <<"arrival", i>> \in seen

\* C25: fetch-hafas.py: once the process has ended, by its end or by an
\* exception, every row of the batch whose watermark the file holds, and of
\* every earlier batch of the session, is committed: the persisted watermark
\* is not left ahead of the committed data.
C25_HafasWatermarkIsCommitted ==
    (pc \in {"done", "crashed"} /\ wmIter[st] >= 1) =>
        \A r \in fetched : r[2] <= wmIter[st] => r \in committed

\* C21: with a backend whose instants are bounded above and whose batches never
\* end before their anchor, and with every call returning, no session goes
\* round the while-loop more than MaxInstant + 1 times and the process reaches
\* the export step.
C21_SessionsStopAndExportIsReached ==
    /\ [](iter <= MaxInstant + 1)
    /\ <>(pc = "export")

\* ---------------------------------------------------------- specifications
Init == LoopInit /\ ResolverInit /\ TimeInit /\ FeedInit /\ WorldInit

\* the fetch loop of update-feed.py, the resolver left aside
Next ==
    \/ Locate /\ UNCHANGED <<resolverVars, timeVars, feedVars, worldVars>>
    \/ LocateFail /\ UNCHANGED <<resolverVars, timeVars, feedVars, worldVars>>
    \/ Fetch /\ UNCHANGED <<resolverVars, timeVars, feedVars, worldVars>>
    \/ FetchFail /\ UNCHANGED <<resolverVars, timeVars, feedVars, worldVars>>
    \/ ProcessTrip /\ UNCHANGED <<resolverVars, timeVars, feedVars, worldVars>>
    \/ TripFail /\ UNCHANGED <<resolverVars, timeVars, feedVars, worldVars>>
    \/ TripCrash /\ UNCHANGED <<resolverVars, timeVars, feedVars, worldVars>>
    \/ Commit /\ UNCHANGED <<resolverVars, timeVars, feedVars, worldVars>>
    \/ WriteWatermark /\ UNCHANGED <<resolverVars, timeVars, feedVars, worldVars>>
    \/ Check /\ UNCHANGED <<resolverVars, timeVars, feedVars, worldVars>>
    \/ Interrupt /\ UNCHANGED <<resolverVars, timeVars, feedVars, worldVars>>
    \/ Export /\ UNCHANGED <<resolverVars, timeVars, feedVars, worldVars>>

Spec == Init /\ [][Next]_vars

\* the fetch loop of update-feed.py against a backend whose instants are bounded
\* and whose batches never end before their anchor; the process is sequential
\* and every call returns, so it always takes its next step
NextLive ==
    \/ Locate /\ UNCHANGED <<resolverVars, timeVars, feedVars, worldVars>>
    \/ LocateFail /\ UNCHANGED <<resolverVars, timeVars, feedVars, worldVars>>
    \/ FetchAnchored /\ UNCHANGED <<resolverVars, timeVars, feedVars, worldVars>>
    \/ FetchFail /\ UNCHANGED <<resolverVars, timeVars, feedVars, worldVars>>
    \/ ProcessTrip /\ UNCHANGED <<resolverVars, timeVars, feedVars, worldVars>>
    \/ TripFail /\ UNCHANGED <<resolverVars, timeVars, feedVars, worldVars>>
    \/ TripCrash /\ UNCHANGED <<resolverVars, timeVars, feedVars, worldVars>>
    \/ Commit /\ UNCHANGED <<resolverVars, timeVars, feedVars, worldVars>>
    \/ WriteWatermark /\ UNCHANGED <<resolverVars, timeVars, feedVars, worldVars>>
    \/ Check /\ UNCHANGED <<resolverVars, timeVars, feedVars, worldVars>>
    \/ Interrupt /\ UNCHANGED <<resolverVars, timeVars, feedVars, worldVars>>
    \/ Export /\ UNCHANGED <<resolverVars, timeVars, feedVars, worldVars>>

SpecLive == Init /\ [][NextLive]_vars /\ WF_vars(NextLive)

\* the fetch loop of update-feed.py against a backend that answers from the
\* timetable of the station
NextTimetable ==
    \/ LocateTimetable /\ UNCHANGED <<resolverVars, timeVars, feedVars>>
    \/ LocateFail /\ UNCHANGED <<resolverVars, timeVars, feedVars, worldVars>>
    \/ FetchTimetable /\ UNCHANGED <<resolverVars, timeVars, feedVars>>
    \/ FetchFail /\ UNCHANGED <<resolverVars, timeVars, feedVars, worldVars>>
    \/ ProcessTrip /\ UNCHANGED <<resolverVars, timeVars, feedVars, worldVars>>
    \/ TripFail /\ UNCHANGED <<resolverVars, timeVars, feedVars, worldVars>>
    \/ TripCrash /\ UNCHANGED <<resolverVars, timeVars, feedVars, worldVars>>
    \/ Commit /\ UNCHANGED <<resolverVars, timeVars, feedVars, worldVars>>
    \/ WriteWatermark /\ UNCHANGED <<resolverVars, timeVars, feedVars, worldVars>>
    \/ Check /\ UNCHANGED <<resolverVars, timeVars, feedVars, worldVars>>
    \/ Interrupt /\ UNCHANGED <<resolverVars, timeVars, feedVars, worldVars>>
    \/ Export /\ UNCHANGED <<resolverVars, timeVars, feedVars, worldVars>>

SpecTimetable == Init /\ [][NextTimetable]_vars

\* fetch-hafas.py
NextHafas ==
    \/ HafasStart /\ UNCHANGED <<resolverVars, timeVars, feedVars, worldVars>>
    \/ HafasLocateFail /\ UNCHANGED <<resolverVars, timeVars, feedVars, worldVars>>
    \/ HafasFetch /\ UNCHANGED <<resolverVars, timeVars, feedVars, worldVars>>
    \/ HafasFetchFail /\ UNCHANGED <<resolverVars, timeVars, feedVars, worldVars>>
    \/ HafasProcessTrip /\ UNCHANGED <<resolverVars, timeVars, feedVars, worldVars>>
    \/ HafasTripFail /\ UNCHANGED <<resolverVars, timeVars, feedVars, worldVars>>
    \/ HafasTripCrash /\ UNCHANGED <<resolverVars, timeVars, feedVars, worldVars>>
    \/ HafasWriteWatermark /\ UNCHANGED <<resolverVars, timeVars, feedVars, worldVars>>
    \/ HafasInterrupt /\ UNCHANGED <<resolverVars, timeVars, feedVars, worldVars>>
    \/ HafasCommit /\ UNCHANGED <<resolverVars, timeVars, feedVars, worldVars>>

SpecHafas == Init /\ [][NextHafas]_vars

\* the resolver: any sequence of search_station calls of one run
NextResolve ==
    \/ LoadStations /\ UNCHANGED <<loopVars, timeVars, feedVars, worldVars>>
    \/ Resolve /\ UNCHANGED <<loopVars, timeVars, feedVars, worldVars>>

SpecResolve == Init /\ [][NextResolve]_vars

\* time_to_gtfs: any sequence of calls
NextTime == FormatTime /\ UNCHANGED <<loopVars, resolverVars, feedVars, worldVars>>

SpecTime == Init /\ [][NextTime]_vars

\* startup and the trips of the batches of update-feed.py, over several runs
NextFeed ==
    \/ LoadConfig /\ UNCHANGED <<loopVars, timeVars, worldVars, rpc, call, queried, firstResult>>
    \/ LoadConfigMissing /\ UNCHANGED <<loopVars, timeVars, worldVars, rpc, call, queried, firstResult>>
    \/ PrepareDatabase /\ UNCHANGED <<loopVars, timeVars, worldVars, rpc, call, queried, firstResult>>
    \/ GetStations /\ UNCHANGED <<loopVars, timeVars, worldVars, rpc, call, queried, firstResult>>
    \/ GetStationsMissing /\ UNCHANGED <<loopVars, timeVars, worldVars, rpc, call, queried, firstResult>>
    \/ Locations /\ UNCHANGED <<loopVars, timeVars, worldVars, rpc, call, queried, firstResult>>
    \/ BeginTrip /\ UNCHANGED <<loopVars, timeVars, worldVars, rpc, call, queried, firstResult>>
    \/ ResolveEnds /\ UNCHANGED <<loopVars, timeVars, worldVars, rpc, call, queried, firstResult>>
    \/ UpsertRoute /\ UNCHANGED <<loopVars, timeVars, worldVars, rpc, call, queried, firstResult>>
    \/ UpsertTrip /\ UNCHANGED <<loopVars, timeVars, worldVars, rpc, call, queried, firstResult>>
    \/ UpsertCalendar /\ UNCHANGED <<loopVars, timeVars, worldVars, rpc, call, queried, firstResult>>
    \/ UpsertStop /\ UNCHANGED <<loopVars, timeVars, worldVars, rpc, call, queried, firstResult>>
    \/ SkipStopover /\ UNCHANGED <<loopVars, timeVars, worldVars, rpc, call, queried, firstResult>>
    \/ UpsertStopTime /\ UNCHANGED <<loopVars, timeVars, worldVars, rpc, call, queried, firstResult>>
    \/ EndTrip /\ UNCHANGED <<loopVars, timeVars, worldVars, rpc, call, queried, firstResult>>
    \/ CommitBatch /\ UNCHANGED <<loopVars, timeVars, worldVars, rpc, call, queried, firstResult>>
    \/ NewRun /\ UNCHANGED <<loopVars, timeVars, worldVars, rpc, call, queried, firstResult>>

SpecFeed == Init /\ [][NextFeed]_vars

\* one run of update-feed.py with interruptions arriving in the middle of trips
NextInterrupted ==
    \/ LoadConfig /\ UNCHANGED <<loopVars, timeVars, worldVars, rpc, call, queried, firstResult>>
    \/ LoadConfigMissing /\ UNCHANGED <<loopVars, timeVars, worldVars, rpc, call, queried, firstResult>>
    \/ PrepareDatabase /\ UNCHANGED <<loopVars, timeVars, worldVars, rpc, call, queried, firstResult>>
    \/ GetStations /\ UNCHANGED <<loopVars, timeVars, worldVars, rpc, call, queried, firstResult>>
    \/ GetStationsMissing /\ UNCHANGED <<loopVars, timeVars, worldVars, rpc, call, queried, firstResult>>
    \/ Locations /\ UNCHANGED <<loopVars, timeVars, worldVars, rpc, call, queried, firstResult>>
    \/ BeginTrip /\ UNCHANGED <<loopVars, timeVars, worldVars, rpc, call, queried, firstResult>>
    \/ ResolveEnds /\ UNCHANGED <<loopVars, timeVars, worldVars, rpc, call, queried, firstResult>>
    \/ UpsertRoute /\ UNCHANGED <<loopVars, timeVars, worldVars, rpc, call, queried, firstResult>>
    \/ UpsertTrip /\ UNCHANGED <<loopVars, timeVars, worldVars, rpc, call, queried, firstResult>>
    \/ UpsertCalendar /\ UNCHANGED <<loopVars, timeVars, worldVars, rpc, call, queried, firstResult>>
    \/ UpsertStop /\ UNCHANGED <<loopVars, timeVars, worldVars, rpc, call, queried, firstResult>>
    \/ SkipStopover /\ UNCHANGED <<loopVars, timeVars, worldVars, rpc, call, queried, firstResult>>
    \/ UpsertStopTime /\ UNCHANGED <<loopVars, timeVars, worldVars, rpc, call, queried, firstResult>>
    \/ EndTrip /\ UNCHANGED <<loopVars, timeVars, worldVars, rpc, call, queried, firstResult>>
    \/ InterruptTrip /\ UNCHANGED <<loopVars, timeVars, worldVars, rpc, call, queried, firstResult>>
    \/ CommitBatch /\ UNCHANGED <<loopVars, timeVars, worldVars, rpc, call, queried, firstResult>>

SpecInterrupted == Init /\ [][NextInterrupted]_vars
====
